---- MODULE Spec2Model ----
(***************************************************************************)
(* Token lifecycle of the Granola API wrapper: TokenState of src/api.py    *)
(* (file persistence on a volume) and of src/api_fixed.py (persistence of  *)
(* the rotated refresh token as a Railway service variable), the handlers  *)
(* that call it (get_headers, /health, /reset-token), the identity         *)
(* provider's answers and process restarts.                                *)
(*                                                                         *)
(* Time is in seconds.  Tokens are numbers: 0 is the empty string / None   *)
(* (both falsy in Python), k > 0 is the k-th distinct secret.  The k-th    *)
(* 2xx answer of the provider carries access token k and, when it rotates, *)
(* refresh token k.                                                        *)
(*                                                                         *)
(* Spec is the process as uvicorn.run(app) serves it: every endpoint is a  *)
(* coroutine without an await, so one handler runs at a time.  SpecThreads *)
(* lets the callers of TokenState's methods run in parallel, which is what *)
(* the statements about concurrent callers are about.                      *)
(***************************************************************************)
EXTENDS Integers, Sequences, FiniteSets, TLC

\* ---------------------------------------------------------------- bounds
Callers == {1, 2}
\* 2xx answers of the provider
MaxIssued == 2
\* advances of the clock
MaxTicks == 1
\* calls of /reset-token
MaxResets == 1
\* restarts of the process
MaxRestarts == 1

\* ------------------------------------------------------ program constants
NoToken == 0
BufferSeconds == 300
DefaultExpiresIn == 3600

\* One advance of the clock takes a token of the default lifetime, fresh
\* before it, exactly to the start of its five-minute buffer.
TickSeconds == DefaultExpiresIn - BufferSeconds
Lifetimes == {BufferSeconds, BufferSeconds + 100}

RtBaseline == MaxIssued + 1
RtPersisted == MaxIssued + 2
AtPersisted == MaxIssued + 3

None == <<>>
Some(x) == <<x>>

\* ------------------------------------------------- datetime <-> ISO text
\* datetime.isoformat(): the text "…THH:MM:SS", kept as its three fields.
isoformat(t) ==
  [k |-> "iso", h |-> t \div 3600, m |-> (t % 3600) \div 60, s |-> t % 60]
\* What the record's token_expiry field can hold besides an ISO text:
\* JSON null, and a string datetime.fromisoformat() rejects.
JsonNull == [k |-> "null", h |-> 0, m |-> 0, s |-> 0]
BadIso == [k |-> "bad", h |-> 0, m |-> 0, s |-> 0]
\* datetime.fromisoformat() of a well-formed text.
fromisoformat(x) == x.h * 3600 + x.m * 60 + x.s

\* ------------------------------------------------------------ TokenState
VARIABLES
  strategy,      \* "file" (src/api.py) or "remote" (src/api_fixed.py)
  now,           \* datetime.now()
  env_refresh,   \* os.environ GRANOLA_REFRESH_TOKEN of the running process
  env_client,    \* os.environ GRANOLA_CLIENT_ID
  railway,       \* RAILWAY_API_TOKEN / _ENVIRONMENT_ID / _SERVICE_ID set?
  platform_var,  \* the Railway service variable GRANOLA_REFRESH_TOKEN
  file,          \* /data/token_state.json
  ts,            \* the TokenState objects constructed by this process
  token_state,   \* the module global: index in ts of the current object
  issued,        \* number of 2xx answers the provider has given
  call,          \* per caller: the handler's position and locals
  latest,        \* the refresh token the provider issued most recently
  save_failed,   \* has a write of the file or of the variable failed?
  resets,
  restarts

vars == <<strategy, now, env_refresh, env_client, railway, platform_var,
          file, ts, token_state, issued, call, latest, save_failed,
          resets, restarts>>

NoFile ==
  [exists |-> FALSE, valid |-> FALSE, refresh_token |-> NoToken,
   access_token |-> NoToken, token_expiry |-> JsonNull]
CorruptFile == [NoFile EXCEPT !.exists = TRUE]
Record(rt, at, exp) ==
  [exists |-> TRUE, valid |-> TRUE, refresh_token |-> rt,
   access_token |-> at, token_expiry |-> exp]

\* is_expired with the buffer taken twice.
is_expired_DoubleBuffer(s, t) ==
  \/ s.access_token = NoToken
  \/ s.token_expiry = None
  \/ t >= s.token_expiry[1] - 2 * BufferSeconds

\* TokenState.is_expired
is_expired(s, t) ==
  \/ s.access_token = NoToken
  \/ s.token_expiry = None
  \/ t >= s.token_expiry[1] - BufferSeconds

\* _load_persisted_state that keeps a non-empty baseline refresh token.
_load_persisted_state_BaselineFirst(s, f, t) ==
  IF ~f.exists \/ ~f.valid THEN s
  ELSE
    LET s1 == IF f.refresh_token # NoToken /\ s.refresh_token = NoToken
              THEN [s EXCEPT !.refresh_token = f.refresh_token]
              ELSE s
    IN  IF f.token_expiry.k # "iso" THEN s1
        ELSE LET expiry == fromisoformat(f.token_expiry)
             IN  IF t < expiry - BufferSeconds
                 THEN [s1 EXCEPT !.access_token = f.access_token,
                                 !.token_expiry = Some(expiry)]
                 ELSE s1

\* _load_persisted_state that restores the access token whatever its expiry.
_load_persisted_state_RestoresStale(s, f, t) ==
  IF ~f.exists \/ ~f.valid THEN s
  ELSE
    LET s1 == IF f.refresh_token # NoToken
              THEN [s EXCEPT !.refresh_token = f.refresh_token]
              ELSE s
    IN  IF f.token_expiry.k # "iso" THEN s1
        ELSE [s1 EXCEPT !.access_token = f.access_token,
                        !.token_expiry = Some(fromisoformat(f.token_expiry))]

\* TokenState._load_persisted_state, applied to the freshly seeded object.
\* The whole body is inside try/except: an exception keeps what was assigned
\* before it.
_load_persisted_state(s, f, t) ==
  IF ~f.exists \/ ~f.valid THEN s
  ELSE
    LET s1 == IF f.refresh_token # NoToken
              THEN [s EXCEPT !.refresh_token = f.refresh_token]
              ELSE s
    IN  IF f.token_expiry.k # "iso" THEN s1
        ELSE LET expiry == fromisoformat(f.token_expiry)
             IN  IF t < expiry - BufferSeconds
                 THEN [s1 EXCEPT !.access_token = f.access_token,
                                 !.token_expiry = Some(expiry)]
                 ELSE s1

\* TokenState.__init__: seeded from the environment; the file strategy then
\* loads the persisted record, the remote strategy has no load.
NewTokenState(strat, rt, cid, f, t) ==
  LET seeded == [access_token |-> NoToken, refresh_token |-> rt,
                 client_id |-> cid, token_expiry |-> None]
  IN  IF strat = "file" THEN _load_persisted_state(seeded, f, t) ELSE seeded

Idle ==
  [pc |-> "idle", entry |-> "none", self |-> 0, pre |-> None,
   sent |-> NoToken, result |-> None, refreshed |-> "none",
   saved |-> "none", ret |-> NoToken, status |-> "none"]

AllRailway == [token |-> TRUE, env |-> TRUE, service |-> TRUE]
RailwayInits ==
  {AllRailway, [AllRailway EXCEPT !.token = FALSE],
   [AllRailway EXCEPT !.env = FALSE], [AllRailway EXCEPT !.service = FALSE]}

FileInits ==
  {NoFile, CorruptFile,
   Record(RtPersisted, NoToken, JsonNull),
   Record(RtPersisted, AtPersisted, isoformat(DefaultExpiresIn)),
   Record(RtPersisted, AtPersisted, BadIso),
   Record(NoToken, NoToken, isoformat(BufferSeconds))}

Init ==
  /\ strategy \in {"file", "remote"}
  /\ now = 0
  /\ env_refresh \in {NoToken, RtBaseline}
  /\ env_client \in {0, 1}
  /\ IF strategy = "file"
     THEN railway = AllRailway /\ file \in FileInits
     ELSE railway \in RailwayInits /\ file = NoFile
  /\ platform_var = env_refresh
  /\ ts = <<NewTokenState(strategy, env_refresh, env_client, file, now)>>
  /\ token_state = 1
  /\ issued = 0
  /\ call = [c \in Callers |-> Idle]
  /\ latest = NoToken
  /\ save_failed = FALSE
  /\ resets = 0
  /\ restarts = 0

\* The clock advances, also while a handler blocks on I/O.
Tick ==
  /\ now + TickSeconds <= MaxTicks * TickSeconds
  /\ now' = now + TickSeconds
  /\ call' = [d \in Callers |-> IF call[d].pc = "done" THEN Idle ELSE call[d]]
  /\ UNCHANGED <<strategy, env_refresh, env_client, railway, platform_var,
                 file, ts, token_state, issued, latest, save_failed, resets, restarts>>

\* ----------------------------------------------------------- handlers
\* A handler runs from one blocking call (the request to the provider, the
\* request to Railway, the write of the file) to the next in one step.
Obj(c) == ts[call[c].self]
Inactive(c) == call[c].pc \in {"idle", "done"}
Entries == IF strategy = "file"
           THEN {"get_headers", "health", "reset_token"}
           ELSE {"get_headers", "health"}

\* A finished handler's answer is on view in the state its last step leads
\* to; the next step of anything takes it away.
Clean(r) == IF r.pc = "done" THEN Idle ELSE r
Put(c, r) == [d \in Callers |-> IF d = c THEN r ELSE Clean(call[d])]

\* What a handler finds when it starts: the current object, the file and the
\* platform variable.
Snapshot ==
  [obj |-> ts[token_state], file |-> file, platform_var |-> platform_var]

\* get_headers: HTTP 401 without a token, the header bundle with one.
get_headers(token) == IF token = NoToken THEN "401" ELSE "headers"
\* /health: "status": "healthy" if token else "unhealthy".
health(token) == IF token # NoToken THEN "healthy" ELSE "unhealthy"

\* get_token has returned `token` to get_headers or to /health.
Finish(r, token) ==
  [r EXCEPT !.pc = "done", !.ret = token,
            !.status = IF r.entry = "health"
                       THEN health(token) ELSE get_headers(token)]

\* get_token that hands out nothing after a refresh.
AfterRefresh_NoToken(r, ok, s) ==
  LET r1 == [r EXCEPT !.refreshed = IF ok THEN "true" ELSE "false"]
  IN  IF r.entry = "reset_token"
      THEN [r1 EXCEPT !.pc = "done", !.status = "ok"]
      ELSE Finish(r1, NoToken)

\* refresh has returned `ok`, leaving the object as s.  get_token returns
\* None on failure and self.access_token on success; reset_token ignores the
\* result and answers "ok".
AfterRefresh(r, ok, s) ==
  LET r1 == [r EXCEPT !.refreshed = IF ok THEN "true" ELSE "false"]
  IN  IF r.entry = "reset_token"
      THEN [r1 EXCEPT !.pc = "done", !.status = "ok"]
      ELSE Finish(r1, IF ok THEN s.access_token ELSE NoToken)

\* The credential guard that looks at the refresh token only.
MissingCredentials_TokenOnly(s) == s.refresh_token = NoToken

\* refresh, up to requests.post: the credential guards, then the request
\* body built from the object's refresh_token and client_id.
MissingCredentials(s) == s.refresh_token = NoToken \/ s.client_id = 0
BeginRefresh(r, s) ==
  IF MissingCredentials(s)
  THEN AfterRefresh(r, FALSE, s)
  ELSE [r EXCEPT !.pc = "post", !.sent = s.refresh_token]

\* get_token that refreshes whenever a refresh of another caller is under way.
get_token_RefreshesAlong(c, e, found) ==
  /\ Inactive(c)
  /\ \A d \in Callers : d < c => ~Inactive(d)
  /\ e \in Entries \ {"reset_token"}
  /\ LET s == ts[token_state]
         r == [Idle EXCEPT !.entry = e, !.self = token_state, !.pre = found]
         busy == \E d \in Callers \ {c} : ~Inactive(d)
     IN  call' = Put(c, IF is_expired(s, now) \/ busy
                        THEN BeginRefresh(r, s)
                        ELSE Finish(r, s.access_token))
  /\ UNCHANGED <<strategy, now, env_refresh, env_client, railway, platform_var,
                 file, ts, token_state, issued, latest, save_failed, resets, restarts>>

\* get_headers and /health: token_state.get_token() on the object the
\* global names.  Callers are slots: a request takes the lowest free one.
get_token(c, e, found) ==
  /\ Inactive(c)
  /\ \A d \in Callers : d < c => ~Inactive(d)
  /\ e \in Entries \ {"reset_token"}
  /\ LET s == ts[token_state]
         r == [Idle EXCEPT !.entry = e, !.self = token_state, !.pre = found]
     IN  call' = Put(c, IF is_expired(s, now)
                        THEN BeginRefresh(r, s)
                        ELSE Finish(r, s.access_token))
  /\ UNCHANGED <<strategy, now, env_refresh, env_client, railway, platform_var,
                 file, ts, token_state, issued, latest, save_failed, resets, restarts>>

\* reset_token that leaves the file where it is.
reset_token_KeepsFile(c, found) ==
  /\ Inactive(c)
  /\ \A d \in Callers : d < c => ~Inactive(d)
  /\ "reset_token" \in Entries
  /\ resets < MaxResets
  /\ resets' = resets + 1
  /\ file' = file
  /\ LET new == NewTokenState(strategy, env_refresh, env_client, file', now)
         kept == IF \A d \in Callers \ {c} : Inactive(d) THEN <<>> ELSE ts
         r == [Idle EXCEPT !.entry = "reset_token", !.self = Len(kept) + 1,
                           !.pre = found]
     IN  /\ ts' = Append(kept, new)
         /\ token_state' = Len(kept) + 1
         /\ call' = Put(c, BeginRefresh(r, new))
  /\ UNCHANGED <<strategy, now, env_refresh, env_client, railway, platform_var,
                 issued, latest, save_failed, restarts>>

\* reset_token: unlink the file, token_state = TokenState(), then refresh().
\* An object that no running handler holds is dropped.
reset_token(c, found) ==
  /\ Inactive(c)
  /\ \A d \in Callers : d < c => ~Inactive(d)
  /\ "reset_token" \in Entries
  /\ resets < MaxResets
  /\ resets' = resets + 1
  /\ file' = NoFile
  /\ LET new == NewTokenState(strategy, env_refresh, env_client, file', now)
         kept == IF \A d \in Callers \ {c} : Inactive(d) THEN <<>> ELSE ts
         r == [Idle EXCEPT !.entry = "reset_token", !.self = Len(kept) + 1,
                           !.pre = found]
     IN  /\ ts' = Append(kept, new)
         /\ token_state' = Len(kept) + 1
         /\ call' = Put(c, BeginRefresh(r, new))
  /\ UNCHANGED <<strategy, now, env_refresh, env_client, railway, platform_var,
                 issued, latest, save_failed, restarts>>

\* The endpoints are coroutines without an await, served by one event loop:
\* a handler starts only when no other handler is running.
Enter(c, e) ==
  /\ \A d \in Callers \ {c} : Inactive(d)
  /\ IF e = "reset_token"
     THEN reset_token(c, Some(Snapshot))
     ELSE get_token(c, e, Some(Snapshot))

\* The same methods called by callers that run in parallel.
EnterThread(c, e) ==
  IF e = "reset_token"
  THEN reset_token(c, Some(Snapshot))
  ELSE get_token(c, e, Some(Snapshot))

Absent == [k |-> "absent", v |-> 0]
BadType == [k |-> "bad", v |-> 0]
Seconds(n) == [k |-> "int", v |-> n]
\* The JSON bodies of a 2xx answer to a request that sent refresh token
\* `sent`: a well-formed rotating answer with every kind of expires_in, an
\* answer that does not rotate (no refresh_token, or the one sent), and
\* answers without an access_token.
Bodies(sent, n) ==
  [access_token : {n}, refresh_token : {n},
   expires_in : {Absent, BadType} \cup {Seconds(x) : x \in Lifetimes}]
  \cup [access_token : {n}, refresh_token : {NoToken, sent}, expires_in : {Absent}]
  \cup [access_token : {NoToken}, refresh_token : {NoToken, n}, expires_in : {Absent}]

\* The rotation test that lets every answer through.
Rotates_Always(s, body) == TRUE

\* refresh: `if new_refresh and new_refresh != self.refresh_token`
Rotates(s, body) ==
  body.refresh_token # NoToken /\ body.refresh_token # s.refresh_token

\* The assignments of refresh without the rotation branch.
Assigned_NoRotation(s, body) ==
  [s EXCEPT !.access_token = body.access_token]

\* The assignments of refresh with the answer's refresh_token taken as it is.
Assigned_TakesAnswer(s, body) ==
  [s EXCEPT !.access_token = body.access_token,
            !.refresh_token = body.refresh_token]

\* refresh: self.access_token = result.get("access_token"), then the
\* rotation branch.
Assigned(s, body) ==
  [s EXCEPT !.access_token = body.access_token,
            !.refresh_token = IF Rotates(s, body)
                              THEN body.refresh_token ELSE @]

\* expires_in without the default.
expires_in_NoDefault(body) == body.expires_in.v

\* refresh: expires_in = result.get("expires_in", 3600);
\* timedelta(seconds=expires_in) raises on a value that is not a number.
expires_in(body) ==
  IF body.expires_in.k = "absent" THEN DefaultExpiresIn ELSE body.expires_in.v
Raises(body) == body.expires_in.k = "bad"
\* refresh: self.token_expiry = datetime.now() + timedelta(seconds=expires_in)
WithExpiry(s, body, t) ==
  [s EXCEPT !.token_expiry = Some(t + expires_in(body))]

\* requests.post returns or raises; raise_for_status; response.json().
\* A network error, a non-2xx status and an unparsable body all end in the
\* except branch: refresh returns False.
ProviderFails(c) ==
  /\ call[c].pc = "post"
  /\ call' = Put(c, AfterRefresh(call[c], FALSE, Obj(c)))
  /\ UNCHANGED <<strategy, now, env_refresh, env_client, railway, platform_var,
                 file, ts, token_state, issued, latest, save_failed, resets, restarts>>

\* src/api_fixed.py, after the rotation branch: the expiry, then return True;
\* an exception there returns False.  <<object, caller>> afterwards.
RemoteTail(r, s, body, t) ==
  IF Raises(body)
  THEN <<s, AfterRefresh(r, FALSE, s)>>
  ELSE <<WithExpiry(s, body, t), AfterRefresh(r, TRUE, WithExpiry(s, body, t))>>

\* src/api.py, after the rotation branch: the expiry, then _persist_state;
\* an exception at the expiry returns False before anything is written.
FileTail(r, s, body, t) ==
  IF Raises(body)
  THEN <<s, AfterRefresh(r, FALSE, s)>>
  ELSE <<WithExpiry(s, body, t), [r EXCEPT !.pc = "persist_file"]>>

\* The provider answers 2xx with a JSON body; refresh handles it up to its
\* next blocking call.
ProviderAnswers(c, body) ==
  /\ call[c].pc = "post"
  /\ issued < MaxIssued
  /\ body \in Bodies(call[c].sent, issued + 1)
  /\ issued' = issued + 1
  /\ latest' = IF body.refresh_token = issued + 1 THEN issued + 1 ELSE latest
  /\ LET r == [call[c] EXCEPT !.result = Some(body)]
         s == Assigned(Obj(c), body)
         next == IF strategy = "file" THEN FileTail(r, s, body, now)
                 ELSE IF Rotates(Obj(c), body)
                      THEN <<s, [r EXCEPT !.pc = "persist_remote"]>>
                      ELSE RemoteTail(r, s, body, now)
     IN  /\ ts' = [ts EXCEPT ![call[c].self] = next[1]]
         /\ call' = Put(c, next[2])
  /\ UNCHANGED <<strategy, now, env_refresh, env_client, railway, platform_var,
                 file, token_state, save_failed, resets, restarts>>

\* The settings test that looks at the API token only.
Configured_TokenOnly == railway.token

\* _persist_refresh_token (src/api_fixed.py): no request without the three
\* Railway settings; otherwise the mutation succeeds or fails.  Then the rest
\* of refresh.
Configured == railway.token /\ railway.env /\ railway.service
_persist_refresh_token(c, outcome) ==
  /\ call[c].pc = "persist_remote"
  /\ outcome \in {"ok", "failed"}
  /\ LET body == call[c].result[1]
         saved == IF ~Configured THEN "unconfigured" ELSE outcome
         next == RemoteTail([call[c] EXCEPT !.saved = saved], Obj(c), body, now)
     IN  /\ platform_var' = IF saved = "ok" THEN body.refresh_token
                            ELSE platform_var
         /\ ts' = [ts EXCEPT ![call[c].self] = next[1]]
         /\ call' = Put(c, next[2])
         /\ save_failed' = (save_failed \/ saved # "ok")
  /\ UNCHANGED <<strategy, now, env_refresh, env_client, railway,
                 file, token_state, issued, latest, resets, restarts>>

\* The record without the access token.
StateRecord_NoAccessToken(s) ==
  Record(s.refresh_token, NoToken,
         IF s.token_expiry = None THEN JsonNull
         ELSE isoformat(s.token_expiry[1]))

\* The record _persist_state writes for object s.
StateRecord(s) ==
  Record(s.refresh_token, s.access_token,
         IF s.token_expiry = None THEN JsonNull
         ELSE isoformat(s.token_expiry[1]))

\* _persist_state whose failure makes refresh return False.
_persist_state_Propagates(c, outcome) ==
  /\ call[c].pc = "persist_file"
  /\ outcome \in {"ok", "failed", "torn"}
  /\ file' = CASE outcome = "ok" -> StateRecord(Obj(c))
               [] outcome = "failed" -> file
               [] outcome = "torn" -> CorruptFile
  /\ call' = Put(c, AfterRefresh([call[c] EXCEPT !.saved = outcome],
                                 outcome = "ok", Obj(c)))
  /\ save_failed' = (save_failed \/ outcome # "ok")
  /\ UNCHANGED <<strategy, now, env_refresh, env_client, railway, platform_var,
                 ts, token_state, issued, latest, resets, restarts>>

\* _persist_state (src/api.py): the write succeeds, fails before the file is
\* opened for writing, or fails after open(..., 'w') truncated it.  Every
\* exception is caught and logged; refresh then returns True.
_persist_state(c, outcome) ==
  /\ call[c].pc = "persist_file"
  /\ outcome \in {"ok", "failed", "torn"}
  /\ file' = CASE outcome = "ok" -> StateRecord(Obj(c))
               [] outcome = "failed" -> file
               [] outcome = "torn" -> CorruptFile
  /\ call' = Put(c, AfterRefresh([call[c] EXCEPT !.saved = outcome],
                                 TRUE, Obj(c)))
  /\ save_failed' = (save_failed \/ outcome # "ok")
  /\ UNCHANGED <<strategy, now, env_refresh, env_client, railway, platform_var,
                 ts, token_state, issued, latest, resets, restarts>>

\* The process is restarted: running handlers are gone, the module is loaded
\* again (token_state = TokenState()).  Under the remote strategy the platform
\* injects its variable as the new process's environment.
Restart ==
  /\ restarts < MaxRestarts
  /\ restarts' = restarts + 1
  /\ env_refresh' = IF strategy = "remote" THEN platform_var ELSE env_refresh
  /\ ts' = <<NewTokenState(strategy, env_refresh', env_client, file, now)>>
  /\ token_state' = 1
  /\ call' = [c \in Callers |-> Idle]
  /\ UNCHANGED <<strategy, now, env_client, railway, platform_var,
                 file, issued, latest, save_failed, resets>>

Step(c) ==
  \/ ProviderFails(c)
  \/ \E body \in Bodies(call[c].sent, issued + 1) : ProviderAnswers(c, body)
  \/ \E outcome \in {"ok", "failed"} : _persist_refresh_token(c, outcome)
  \/ \E outcome \in {"ok", "failed", "torn"} : _persist_state(c, outcome)

Next ==
  \/ Tick
  \/ Restart
  \/ \E c \in Callers, e \in Entries : Enter(c, e)
  \/ \E c \in Callers : Step(c)

\* Callers in parallel, within one run of the process.
NextThreads ==
  \/ Tick
  \/ \E c \in Callers, e \in Entries : EnterThread(c, e)
  \/ \E c \in Callers : Step(c)

Spec == Init /\ [][Next]_vars

\* What is bound to happen once a refresh is under way: the write of the
\* local file returns.  requests.post is called without a timeout, to the
\* provider and to Railway alike, so nothing in the process ends a request
\* that gets no answer: the answer steps are the remote side's to take.
SpecFair ==
  Spec /\ \A c \in Callers :
            WF_vars(\E outcome \in {"ok", "failed", "torn"} :
                      _persist_state(c, outcome))

InitThreads ==
  Init /\ env_refresh = RtBaseline /\ env_client = 1 /\ file = NoFile
       /\ railway = AllRailway
SpecThreads == InitThreads /\ [][NextThreads]_vars

\* ------------------------------------------------------------- claims
Done(c) == call[c].pc = "done"
ViaGetToken(c) == call[c].entry \in {"get_headers", "health"}
Found(c) == call[c].pre[1]
InRefresh(c) == call[c].pc \in {"post", "persist_remote", "persist_file"}
Quiet == \A c \in Callers : Inactive(c)
\* The refresh token the persistence backend holds: the file record's, or the
\* platform variable.
Persisted ==
  IF strategy = "file"
  THEN (IF file.exists /\ file.valid THEN file.refresh_token ELSE NoToken)
  ELSE platform_var
\* The answer caller c's refresh got carries a refresh token other than the
\* one it sent.
RotatedAnswer(c) ==
  /\ call[c].result # None
  /\ call[c].result[1].refresh_token \notin {NoToken, call[c].sent}
\* Caller c found an access token whose expiry is more than five minutes
\* ahead.
FoundValid(c) ==
  /\ Found(c).obj.access_token # NoToken
  /\ Found(c).obj.token_expiry # None
  /\ Found(c).obj.token_expiry[1] > now + BufferSeconds

\* C1: single-flight.  Of the get_token callers that found the same expired
\* state of the same object, at most one has a request to the provider in
\* flight: a second one means two provider calls for one expired state.
C1_SingleFlight ==
  \A c1, c2 \in Callers :
    ( /\ c1 # c2
      /\ ViaGetToken(c1) /\ ViaGetToken(c2)
      /\ call[c1].pc = "post" /\ call[c2].pc = "post"
      /\ call[c1].self = call[c2].self
      /\ Found(c1).obj = Found(c2).obj )
    => FALSE

\* C2: in every reachable state at most one refresh is in flight, whichever
\* handler started it (get_headers, /health or reset_token).
C2_OneRefreshInFlight ==
  Cardinality({c \in Callers : InRefresh(c)}) <= 1

\* C3: when the refresh a get_token call made has returned failure, the
\* object's access_token, refresh_token, client_id and token_expiry are what
\* the call found, and the caller gets no token.
C3_FailedRefreshKeepsState ==
  \A c \in Callers :
    (Done(c) /\ ViaGetToken(c) /\ call[c].refreshed = "false")
    => (Obj(c) = Found(c).obj /\ call[c].ret = NoToken)

\* C4 as stated: after a successful refresh whose answer carries a refresh
\* token other than the one sent, the object's refresh_token is the new value
\* and so is the value the persistence backend holds.
C4_RotationAlwaysSaved ==
  \A c \in Callers :
    (Done(c) /\ call[c].refreshed = "true" /\ RotatedAnswer(c))
    => /\ Obj(c).refresh_token = call[c].result[1].refresh_token
       /\ Persisted = call[c].result[1].refresh_token

\* C4 as amended: after such a refresh the object's refresh_token is the new
\* value, and the persistence backend holds the new value whenever the write
\* was made and succeeded.
C4_RotationApplied ==
  \A c \in Callers :
    (Done(c) /\ call[c].refreshed = "true" /\ RotatedAnswer(c))
    => /\ Obj(c).refresh_token = call[c].result[1].refresh_token
       /\ call[c].saved = "ok"
            => Persisted = call[c].result[1].refresh_token

C4_Witness ==
  \E c \in Callers :
    /\ Done(c) /\ call[c].refreshed = "true" /\ RotatedAnswer(c)
    /\ call[c].saved = "ok"
    /\ Persisted = call[c].result[1].refresh_token
    /\ Found(c).obj.refresh_token # Obj(c).refresh_token

\* C5: file strategy, no reset, no failed save, no handler cut off: the
\* refresh_token of the object a restart constructs is the refresh token the
\* provider issued most recently.
C5_NoRotationLost ==
  [][ ( /\ restarts' = restarts + 1
        /\ strategy = "file"
        /\ resets = 0
        /\ ~save_failed
        /\ latest # NoToken
        /\ Quiet )
      => ts'[token_state'].refresh_token = latest ]_vars

\* C6: a get_token call that finds an access token with an expiry more than
\* five minutes ahead returns that token, starts no refresh (no request to the
\* provider), and leaves the object, the file and the platform variable as
\* found.
C6_ValidTokenServed ==
  \A c \in Callers :
    (Done(c) /\ ViaGetToken(c) /\ FoundValid(c))
    => /\ call[c].ret = Found(c).obj.access_token
       /\ call[c].refreshed = "none"
       /\ call[c].sent = NoToken
       /\ Obj(c) = Found(c).obj
       /\ file = Found(c).file
       /\ platform_var = Found(c).platform_var

C6_Witness ==
  \E c \in Callers :
    /\ Done(c) /\ ViaGetToken(c) /\ FoundValid(c)
    /\ call[c].ret # NoToken
    /\ call[c].ret = Obj(c).access_token

\* C7: every token get_token returns, one just obtained by a refresh
\* included, has a token_expiry more than five minutes after the return.
C7_ReturnedTokenFresh ==
  \A c \in Callers :
    (Done(c) /\ ViaGetToken(c) /\ call[c].ret # NoToken)
    => /\ Obj(c).token_expiry # None
       /\ Obj(c).token_expiry[1] > now + BufferSeconds

\* C8: a 2xx answer without an access_token makes refresh return failure and
\* leaves the object and the file as the call found them.
C8_MalformedAnswerIsFailure ==
  \A c \in Callers :
    ( /\ Done(c) /\ ViaGetToken(c)
      /\ call[c].result # None
      /\ call[c].result[1].access_token = NoToken )
    => /\ call[c].refreshed = "false"
       /\ Obj(c) = Found(c).obj
       /\ file = Found(c).file
       /\ platform_var = Found(c).platform_var

\* C9: whenever no handler is in the middle of a step, the current object's
\* access_token is present exactly when its token_expiry is.
C9_TokenAndExpiryTogether ==
  Quiet => ( ts[token_state].access_token # NoToken
             <=> ts[token_state].token_expiry # None )

\* C10: the object constructed at startup (at process start, at a restart, in
\* reset_token) has the file record's refresh_token when the record is there,
\* parses and holds a non-empty one, whatever the baseline is, and the
\* baseline otherwise.
HasPersistedRefresh(f) == f.exists /\ f.valid /\ f.refresh_token # NoToken
StartupToken(f, base) ==
  IF HasPersistedRefresh(f) THEN f.refresh_token ELSE base
C10_PersistedTakesPrecedence ==
  /\ strategy = "file"
       => ts[token_state].refresh_token = StartupToken(file, env_refresh)
  /\ [][ (strategy = "file" /\ (restarts' # restarts \/ resets' # resets))
         => ts'[token_state'].refresh_token
              = StartupToken(file', env_refresh') ]_vars

C10_Witness ==
  /\ strategy = "file"
  /\ restarts = 1
  /\ Quiet
  /\ HasPersistedRefresh(file)
  /\ env_refresh # NoToken
  /\ file.refresh_token \notin {env_refresh, RtPersisted}
  /\ ts[token_state].refresh_token = file.refresh_token

\* The answer caller c's refresh got.
Answer(c) == call[c].result[1]
\* The answer is one refresh can complete with: it carries an access token
\* and its expires_in, if any, is a number.
WellFormed(c) ==
  /\ call[c].result # None
  /\ Answer(c).access_token # NoToken
  /\ ~Raises(Answer(c))
\* The object's token_expiry is the answer's lifetime after a time that has
\* been.
ExpiryFromAnswer(c) ==
  /\ Obj(c).token_expiry # None
  /\ Obj(c).token_expiry[1] - expires_in(Answer(c)) \in 0..now
\* The write of the file or of the platform variable was attempted and failed.
WriteFailed(c) == call[c].saved \in {"failed", "torn"}

\* C11: when the persistence write fails (the file write, or the Railway
\* mutation) in a refresh whose answer is well formed, refresh still returns
\* True, the object's access_token, token_expiry and rotated refresh_token
\* are the answer's, and get_token returns the new access token.
C11_WriteFailureIsNotRefreshFailure ==
  \A c \in Callers :
    (Done(c) /\ WriteFailed(c) /\ WellFormed(c))
    => /\ call[c].refreshed = "true"
       /\ Obj(c).access_token = Answer(c).access_token
       /\ ExpiryFromAnswer(c)
       /\ RotatedAnswer(c) => Obj(c).refresh_token = Answer(c).refresh_token
       /\ ViaGetToken(c) => call[c].ret = Answer(c).access_token

C11_Witness ==
  \E c \in Callers :
    /\ Done(c) /\ WriteFailed(c) /\ WellFormed(c)
    /\ ViaGetToken(c) /\ RotatedAnswer(c)
    /\ call[c].ret = Answer(c).access_token
    /\ Obj(c).refresh_token = Answer(c).refresh_token
    /\ Persisted # Answer(c).refresh_token

\* C12: after a refresh that returned True on an answer with no refresh
\* token, or with the one that was sent, the object's refresh_token is the
\* one sent, and its access_token and token_expiry are the answer's.
C12_NoRotationKeepsRefreshToken ==
  \A c \in Callers :
    (Done(c) /\ call[c].refreshed = "true" /\ ~RotatedAnswer(c))
    => /\ Obj(c).refresh_token = call[c].sent
       /\ Obj(c).access_token = Answer(c).access_token
       /\ ExpiryFromAnswer(c)

C12_Witness ==
  \E c \in Callers :
    /\ Done(c) /\ call[c].refreshed = "true" /\ WellFormed(c)
    /\ Answer(c).refresh_token = NoToken
    /\ Obj(c).refresh_token = call[c].sent
    /\ Obj(c).access_token # Found(c).obj.access_token

\* Caller c is a get_token call that found the object expired with both
\* credentials present.  (A call that finds a valid token is finished in the
\* step that starts it, so `now` is then the time of the finding; is_expired
\* stays true as time passes.)
FoundExpiredConfigured(c) ==
  /\ ViaGetToken(c)
  /\ is_expired(Found(c).obj, now)
  /\ ~MissingCredentials(Found(c).obj)

\* C13: no terminal failure state.  The code keeps no record of failures, so
\* the statement is one about every reachable state, those that failed
\* refreshes lead to included: a get_token call that finds the object expired
\* with refresh_token and client_id present sends a request to the provider
\* with the object's refresh token, and when the answer is well formed the
\* caller gets the answer's access token.
C13_FailureIsRetried ==
  \A c \in Callers :
    FoundExpiredConfigured(c)
    => /\ call[c].sent = Found(c).obj.refresh_token
       /\ (Done(c) /\ WellFormed(c))
            => /\ call[c].refreshed = "true"
               /\ call[c].ret = Answer(c).access_token

\* The call found what only a failed refresh leaves behind (an access token
\* without an expiry: the answer's expires_in raised), sent the request anew
\* and returned the new token.
C13_Witness ==
  \E c \in Callers :
    /\ FoundExpiredConfigured(c) /\ Done(c) /\ WellFormed(c)
    /\ Found(c).obj.access_token # NoToken
    /\ Found(c).obj.token_expiry = None
    /\ call[c].sent = Found(c).obj.refresh_token
    /\ call[c].ret = Answer(c).access_token
    /\ call[c].ret # Found(c).obj.access_token

\* The object as TokenState.__init__ seeds it from the environment.
Baseline ==
  [access_token |-> NoToken, refresh_token |-> env_refresh,
   client_id |-> env_client, token_expiry |-> None]
\* The file holds a record with refresh token rt.
FileHolds(rt) == file.exists /\ file.valid /\ file.refresh_token = rt

\* C14: reset_token.  Its refresh request carries the baseline refresh token
\* (there is no request when the baseline lacks a credential), and while the
\* request is out the file is gone and the object is the baseline-seeded one.
\* When the refresh returned True on an answer that rotates, the object's
\* refresh_token is not the one the object had before the reset, and the file
\* holds no record with that one.
C14_ResetReseedsFromBaseline ==
  \A c \in Callers :
    call[c].entry = "reset_token"
    => /\ call[c].sent = IF MissingCredentials(Baseline)
                         THEN NoToken ELSE env_refresh
       /\ call[c].pc = "post" => (~file.exists /\ Obj(c) = Baseline)
       /\ (Done(c) /\ call[c].refreshed = "true" /\ RotatedAnswer(c))
            => /\ Obj(c).refresh_token # Found(c).obj.refresh_token
               /\ ~FileHolds(Found(c).obj.refresh_token)

C14_Witness ==
  \E c \in Callers :
    /\ call[c].entry = "reset_token" /\ Done(c)
    /\ call[c].refreshed = "true" /\ RotatedAnswer(c)
    /\ Found(c).obj.refresh_token \notin {NoToken, env_refresh}
    /\ Found(c).file.exists /\ Found(c).file.valid
    /\ Found(c).file.refresh_token = Found(c).obj.refresh_token
    /\ call[c].sent = env_refresh
    /\ FileHolds(Answer(c).refresh_token)
    /\ Obj(c).refresh_token = Answer(c).refresh_token

\* C15: /health is read-only.  It sends no request to the provider, and when
\* it has answered, the object, the file and the platform variable are as it
\* found them.
C15_HealthIsReadOnly ==
  \A c \in Callers :
    call[c].entry = "health"
    => /\ call[c].sent = NoToken
       /\ Done(c) => /\ Obj(c) = Found(c).obj
                      /\ file = Found(c).file
                      /\ platform_var = Found(c).platform_var

\* The statement's own condition: refresh_token or client_id is empty.
LacksCredential(s) == s.refresh_token = NoToken \/ s.client_id = 0

\* C16: every refresh that has started comes to an end, with True or False,
\* also when the provider never answers.
C16_RefreshCompletes ==
  \A c \in Callers : InRefresh(c) ~> ~InRefresh(c)

\* C17: with an empty refresh_token or client_id, refresh returns False
\* without a request to the provider and without a change of the object, the
\* file or the platform variable; a get_token call that finds such an object
\* expired returns no token, get_headers answers 401 (and /health
\* "unhealthy"); the refresh of reset_token on such a baseline does the same.
C17_MissingCredentialsFail ==
  \A c \in Callers :
    /\ ( /\ ViaGetToken(c)
         /\ LacksCredential(Found(c).obj)
         /\ is_expired(Found(c).obj, now) )
       => /\ Done(c)
          /\ call[c].refreshed = "false"
          /\ call[c].sent = NoToken /\ call[c].result = None
          /\ Obj(c) = Found(c).obj
          /\ file = Found(c).file
          /\ platform_var = Found(c).platform_var
          /\ call[c].ret = NoToken
          /\ call[c].status = IF call[c].entry = "get_headers"
                              THEN "401" ELSE "unhealthy"
    /\ (call[c].entry = "reset_token" /\ LacksCredential(Baseline))
       => /\ Done(c)
          /\ call[c].refreshed = "false"
          /\ call[c].sent = NoToken /\ call[c].result = None
          /\ Obj(c) = Baseline

\* get_headers answers 401 on an object that has a refresh token and an
\* access token that has run out, but no client_id.
C17_Witness ==
  \E c \in Callers :
    /\ call[c].entry = "get_headers" /\ Done(c)
    /\ Found(c).obj.client_id = 0
    /\ Found(c).obj.refresh_token # NoToken
    /\ Found(c).obj.access_token # NoToken
    /\ is_expired(Found(c).obj, now)
    /\ call[c].refreshed = "false"
    /\ call[c].status = "401"

\* The file is missing, is not a JSON object, or is a record whose
\* token_expiry datetime.fromisoformat rejects.
Unusable(f) == ~f.exists \/ ~f.valid \/ f.token_expiry.k = "bad"

\* C18: before anything has replaced the object constructed at process
\* start (no answer from the provider, no reset, no restart), a file that is
\* missing, corrupt or holds an unparsable token_expiry has left the object
\* baseline-seeded: refresh_token from the environment, no access_token, no
\* token_expiry.
C18_UnusableFileIsAbsent ==
  ( /\ strategy = "file"
    /\ issued = 0 /\ resets = 0 /\ restarts = 0
    /\ Unusable(file) )
  => ts[token_state] = Baseline

\* C19: once a refresh that rotated the object's refresh token has returned
\* True, every request to the provider that is out for the same object
\* carries the object's refresh token as it is now.
C19_NoStaleTokenInFlight ==
  \A a, b \in Callers :
    ( /\ a # b
      /\ Done(a) /\ call[a].refreshed = "true" /\ RotatedAnswer(a)
      /\ call[b].pc = "post"
      /\ call[b].self = call[a].self )
    => call[b].sent = Obj(b).refresh_token

\* C20: a get_token call that finds a valid token returns it in the step that
\* finds it: it is never left waiting, sends no request, and the token it
\* returns is the one found, whatever the other callers are in the middle of.
C20_ValidTokenServedAtOnce ==
  \A c \in Callers :
    (ViaGetToken(c) /\ ~is_expired(Found(c).obj, now))
    => /\ Done(c)
       /\ call[c].refreshed = "none"
       /\ call[c].sent = NoToken
       /\ call[c].ret = Found(c).obj.access_token

\* A call is served while the refresh that reset_token started is still
\* under way (it has the answer and is writing the file).
C20_Witness ==
  \E c, d \in Callers :
    /\ c # d
    /\ ViaGetToken(c) /\ Done(c)
    /\ ~is_expired(Found(c).obj, now)
    /\ call[c].ret # NoToken
    /\ call[d].entry = "reset_token" /\ InRefresh(d)
    /\ call[d].self = call[c].self

\* C21: /reset-token answers "ok" exactly when the refresh it made returned
\* True.
C21_ResetReportsRefreshResult ==
  \A c \in Callers :
    (call[c].entry = "reset_token" /\ Done(c))
    => (call[c].status = "ok" <=> call[c].refreshed = "true")

\* C22: file strategy.  A refresh that returned True has made the write; when
\* the write succeeded the record's refresh_token, access_token and
\* token_expiry are the object's (the expiry as the text that parses back to
\* it); a refresh that returned False has made no write and the file is as
\* it was when the refresh started.
C22_RecordFollowsRefresh ==
  \A c \in Callers :
    (strategy = "file" /\ Done(c))
    => /\ call[c].refreshed = "true" => call[c].saved # "none"
       /\ (call[c].refreshed = "true" /\ call[c].saved = "ok")
            => /\ file.exists /\ file.valid
               /\ file.refresh_token = Obj(c).refresh_token
               /\ file.access_token = Obj(c).access_token
               /\ Obj(c).token_expiry # None
               /\ file.token_expiry.k = "iso"
               /\ fromisoformat(file.token_expiry) = Obj(c).token_expiry[1]
       /\ call[c].refreshed = "false"
            => /\ call[c].saved = "none"
               /\ file = IF call[c].entry = "reset_token"
                         THEN NoFile ELSE Found(c).file

\* A refresh that did not rotate wrote the record all the same.
C22_Witness ==
  \E c \in Callers :
    /\ strategy = "file" /\ Done(c)
    /\ call[c].refreshed = "true" /\ call[c].saved = "ok"
    /\ WellFormed(c) /\ ~RotatedAnswer(c)
    /\ file.access_token = Answer(c).access_token
    /\ file # Found(c).file

\* C23: in a step that is neither a reset nor a restart, an object's
\* refresh_token that is non-empty stays non-empty, and it changes only in
\* the step that handles a 2xx answer to a request made for that object, to
\* the refresh token that answer carries, which is non-empty and not the one
\* the object had.
C23_RefreshTokenOnlyRotates ==
  [][ (resets' = resets /\ restarts' = restarts)
      => /\ Len(ts') = Len(ts)
         /\ \A i \in 1..Len(ts) :
              /\ ts[i].refresh_token # NoToken
                   => ts'[i].refresh_token # NoToken
              /\ ts'[i].refresh_token # ts[i].refresh_token
                   => \E c \in Callers :
                        /\ call[c].pc = "post" /\ call[c].self = i
                        /\ issued' = issued + 1
                        /\ call'[c].result # None
                        /\ call'[c].result[1].refresh_token
                             = ts'[i].refresh_token
                        /\ call'[c].result[1].refresh_token
                             \notin {NoToken, ts[i].refresh_token} ]_vars

\* A refresh has failed at the request on an object whose refresh token an
\* earlier answer had rotated in, and the object still has that token.
C23_Witness ==
  \E c \in Callers :
    /\ Done(c) /\ call[c].refreshed = "false"
    /\ call[c].sent # NoToken /\ call[c].result = None
    /\ Found(c).obj.refresh_token \in 1..MaxIssued
    /\ Obj(c).refresh_token = Found(c).obj.refresh_token

\* The lifetime the statement gives an answer: its expires_in, 3600 seconds
\* when it has none.
Lifetime(body) ==
  IF body.expires_in.k = "absent" THEN 3600 ELSE body.expires_in.v

\* C24: a refresh that returned True has left a token_expiry (under the
\* remote strategy, where the assignment is the last thing refresh does, it is
\* the present time plus the answer's lifetime); every step that changes an
\* object's token_expiry handles an answer to a request made for that object
\* and sets it to the time of the step plus the answer's lifetime; and when
\* that lifetime is more than 300 seconds and the answer has an access token,
\* the object is not expired after the step.
C24_ExpiryIsNowPlusLifetime ==
  /\ [](\A c \in Callers :
          (Done(c) /\ call[c].refreshed = "true")
          => /\ Obj(c).token_expiry # None
             /\ Obj(c).token_expiry[1] - Lifetime(Answer(c)) \in 0..now
             /\ strategy = "remote"
                  => Obj(c).token_expiry[1] = now + Lifetime(Answer(c)))
  /\ [][ (resets' = resets /\ restarts' = restarts)
         => \A i \in 1..Len(ts) :
              ts'[i].token_expiry # ts[i].token_expiry
              => \E c \in Callers :
                   /\ call[c].self = i
                   /\ call'[c].result # None
                   /\ ts'[i].token_expiry
                        = Some(now + Lifetime(call'[c].result[1]))
                   /\ ( /\ Lifetime(call'[c].result[1]) > 300
                        /\ call'[c].result[1].access_token # NoToken )
                      => ~is_expired(ts'[i], now') ]_vars

\* A refresh at a time after the start, on an answer without expires_in: the
\* expiry is 3600 seconds ahead and the object is not expired.
C24_Witness ==
  \E c \in Callers :
    /\ Done(c) /\ call[c].refreshed = "true" /\ WellFormed(c)
    /\ now > 0
    /\ Answer(c).expires_in.k = "absent"
    /\ Obj(c).token_expiry = Some(now + 3600)
    /\ ~is_expired(Obj(c), now)

\* One of RAILWAY_API_TOKEN, RAILWAY_ENVIRONMENT_ID, RAILWAY_SERVICE_ID is
\* not set.
RailwaySettingMissing ==
  ~railway.token \/ ~railway.env \/ ~railway.service

\* C25: remote strategy with a Railway setting missing.  A refresh whose
\* well-formed answer rotates sends no mutation (the platform variable is as
\* the call found it), its save is not reported as made, and refresh returns
\* True with the rotated refresh token in the object; get_token returns the
\* new access token.
C25_UnconfiguredSaveIsSkipped ==
  \A c \in Callers :
    ( /\ strategy = "remote" /\ RailwaySettingMissing
      /\ Done(c) /\ WellFormed(c) /\ RotatedAnswer(c) )
    => /\ call[c].saved = "unconfigured"
       /\ save_failed
       /\ platform_var = Found(c).platform_var
       /\ call[c].refreshed = "true"
       /\ Obj(c).refresh_token = Answer(c).refresh_token
       /\ call[c].ret = Answer(c).access_token

C25_Witness ==
  \E c \in Callers :
    /\ strategy = "remote" /\ ~railway.service /\ railway.token
    /\ Done(c) /\ WellFormed(c) /\ RotatedAnswer(c)
    /\ call[c].saved = "unconfigured"
    /\ call[c].refreshed = "true"
    /\ Obj(c).refresh_token = Answer(c).refresh_token
    /\ platform_var # Obj(c).refresh_token

\* The record f holds a token_expiry more than five minutes after t.
FreshRecord(f, t) ==
  /\ f.exists /\ f.valid
  /\ f.token_expiry.k = "iso"
  /\ fromisoformat(f.token_expiry) - t > 300
\* Object s holds the record's access token and expiry when the record is
\* fresh at t, and neither an access token nor an expiry when it is not.
RestoredFrom(s, f, t) ==
  IF FreshRecord(f, t)
  THEN /\ s.access_token = f.access_token
       /\ s.token_expiry = Some(fromisoformat(f.token_expiry))
  ELSE /\ s.access_token = NoToken
       /\ s.token_expiry = None
\* get_token call c found a record with a refresh token whose expiry is not
\* fresh, an object without access token and expiry, and a client_id.
FoundStaleRecord(c) ==
  /\ strategy = "file"
  /\ ViaGetToken(c)
  /\ Found(c).file.exists /\ Found(c).file.valid
  /\ Found(c).file.refresh_token # NoToken
  /\ ~FreshRecord(Found(c).file, now)
  /\ Found(c).obj.access_token = NoToken
  /\ Found(c).obj.token_expiry = None
  /\ Found(c).obj.client_id # 0

\* C26: file strategy.  The object constructed at process start, at a restart
\* and in reset_token holds the record's access token and expiry exactly when
\* the record's token_expiry is more than five minutes ahead, and neither
\* otherwise; and a get_token call that finds the object so left by a stale
\* record sends a refresh request with the record's refresh token.
C26_StaleRecordIsNotRestored ==
  /\ strategy = "file" => RestoredFrom(ts[token_state], file, now)
  /\ [][ (strategy = "file" /\ (restarts' # restarts \/ resets' # resets))
         => RestoredFrom(ts'[token_state'], file', now') ]_vars
  /\ [](\A c \in Callers :
          FoundStaleRecord(c) => call[c].sent = Found(c).file.refresh_token)

\* After a restart a call found the record the program had written, its
\* access token run out, and has sent the record's refresh token.
C26_Witness ==
  \E c \in Callers :
    /\ FoundStaleRecord(c)
    /\ restarts = 1 /\ now > 0
    /\ Found(c).file.access_token # NoToken
    /\ Found(c).file.token_expiry.k = "iso"
    /\ Found(c).file.refresh_token \in 1..MaxIssued
    /\ call[c].sent = Found(c).file.refresh_token
====
